---- MODULE Spec2Model ----
\* QIR Merge Server: POST /merge of src/server.js and of its legacy copy
\* (src/unnamed/part_000).  A request loads the base "QIR" document and the
\* certificates, computes the page plan, renders the index page, stamps page
\* numbers and copies every page into one merged document.
\*
\* Strings are sequences of characters, each character a TLA+ string; a
\* character outside ASCII is written by its code point ("U+0416").  A
\* document's bytes are a record: whether pdf-lib can parse them, whether its
\* pages can be drawn on, and the pages.  A page is a record naming where it
\* comes from and what has been stamped on it.
EXTENDS Integers, Sequences, FiniteSets, TLC

\* ---------------------------------------------------------------- bounds
MaxCerts     == 2   \* certificates in one request body
MaxCertPages == 2   \* pages of one certificate document
MaxBasePages == 2   \* pages of the base document
NumReq       == 2   \* requests in flight together (SpecConc)
MaxStrLen    == 2   \* length of reportNo and of date (SpecFilename)

\* ---------------------------------------------------------------- strings
\* The value of a property the JSON body does not carry.
undefined == <<"undefined">>

Lower  == {"a","b","c","d","e","f","g","h","i","j","k","l","m",
           "n","o","p","q","r","s","t","u","v","w","x","y","z"}
Upper  == {"A","B","C","D","E","F","G","H","I","J","K","L","M",
           "N","O","P","Q","R","S","T","U","V","W","X","Y","Z"}
Digits == {"0","1","2","3","4","5","6","7","8","9"}

\* White space as String.prototype.trim sees it (the part the inputs use).
WhiteSpace == {" ", "\t", "\n"}

RECURSIVE TrimStart(_)
TrimStart(s) ==
  IF s = <<>> THEN <<>>
  ELSE IF Head(s) \in WhiteSpace THEN TrimStart(Tail(s)) ELSE s

RECURSIVE TrimEnd(_)
TrimEnd(s) ==
  IF s = <<>> THEN <<>>
  ELSE IF s[Len(s)] \in WhiteSpace THEN TrimEnd(SubSeq(s, 1, Len(s) - 1)) ELSE s

\* x?.trim(): undefined for a missing x, the trimmed string otherwise.
Trim(s) == IF s = undefined THEN undefined ELSE TrimEnd(TrimStart(s))

\* JavaScript truthiness of a string-or-undefined value.
Truthy(s) == s # undefined /\ s # <<>>

\* Characters the standard Helvetica fonts (WinAnsi) cannot encode make
\* pdf-lib's drawText / widthOfTextAtSize throw.
NonWinAnsi == {"U+0416"}
Encodable(s) == \A i \in 1..Len(s) : s[i] \notin NonWinAnsi

\* ---------------------------------------------------------------- documents
NoHeading == <<>>

\* A page: the document it comes from (src, and cert = the position of the
\* certificate in the request body), its position k in that document, the
\* footer number, heading and footer label stamped on it (0 / <<>> = none),
\* and, for the index page, the rows of its table.
Page(src, c, k) ==
  [src |-> src, cert |-> c, k |-> k, footer |-> 0, heading |-> NoHeading,
   mark |-> <<>>, rows |-> <<>>]

\* The page pdf-lib creates itself: addPage() without a page, and save() of a
\* document that has no page (addDefaultPage, on unless switched off).
BlankPage == Page("blank", 0, 0)

\* qirPages[0] of an empty array.
NoPage == Page("undefined", 0, 0)

\* Bytes: id names the content (0 the base document, c the certificate at
\* position c of the body, -1 bytes that are no document).
Garbage == [id |-> 0 - 1, parsable |-> FALSE, drawable |-> FALSE, pages |-> <<>>]

Doc(id, n, drawable) ==
  [id |-> id, parsable |-> TRUE, drawable |-> drawable,
   pages |-> [k \in 1..n |-> Page(IF id = 0 THEN "qir" ELSE "cert", id, k)]]

\* PDFDocument.load(bytes, {ignoreEncryption:true}) throws on bytes that are
\* no document.
CanLoad(bytes) == bytes.parsable

\* doc.save() called without options: a document without pages gets one
\* default page before it is serialised.
PdfSave(doc) ==
  [doc EXCEPT !.pages = IF Len(doc.pages) = 0 THEN <<BlankPage>> ELSE doc.pages]

\* page.getSize() / page.draw*() throw on a page that cannot be drawn on
\* (for instance a page without a MediaBox).
CanDraw(doc) == doc.drawable

\* merged.addPage(p): p undefined makes pdf-lib add a page of its own.
AddPage(pages, p) == Append(pages, IF p = NoPage THEN BlankPage ELSE p)

\* ---------------------------------------------------------------- sources
\* A qirSource / certificate of the request body together with what the
\* outside world answers for it: net is the outcome of the fetch of a url,
\* wellFormed says whether value is base64 text, and parsable, pageCount and
\* drawable describe the document that the locator or payload holds.
Source(label, type, value, net, wellFormed, parsable, pageCount, drawable) ==
  [label |-> label, type |-> type, value |-> value, net |-> net,
   wellFormed |-> wellFormed, parsable |-> parsable, pageCount |-> pageCount,
   drawable |-> drawable]

\* req.body.qirSource missing.
MissingSource == Source(undefined, "undefined", undefined, "ok", FALSE, FALSE, 0, FALSE)

ContentOf(src, id) ==
  IF src.parsable THEN Doc(id, src.pageCount, src.drawable) ELSE Garbage

\* Buffer.from(value, 'base64') never throws: text that is not base64 decodes
\* to bytes that are no document.
Base64Decode(src, id) == IF src.wellFormed THEN ContentOf(src, id) ELSE Garbage

Ok(bytes)   == [ok |-> TRUE,  bytes |-> bytes,   error |-> ""]
Throw(msg)  == [ok |-> FALSE, bytes |-> Garbage, error |-> msg]

\* loadPDFFromSource(src)
LoadPDFFromSource(src, id) ==
  IF src = MissingSource THEN Throw("Cannot read properties of undefined (reading 'type')")
  ELSE IF src.type = "url"
       THEN IF src.net = "timeout" THEN Throw("network timeout")
            ELSE IF src.net # "ok" THEN Throw("HTTP 404 fetching PDF")
            ELSE Ok(ContentOf(src, id))
       ELSE Ok(Base64Decode(src, id))

\* loadPDFFromSource followed by PDFDocument.load, as both handlers call them.
LoadAndParse(src, id) ==
  LET r == LoadPDFFromSource(src, id)
  IN  IF ~r.ok THEN r
      ELSE IF ~CanLoad(r.bytes) THEN Throw("Failed to parse PDF document")
      ELSE r

\* ---------------------------------------------------------------- page plan
INSPECTION_PAGE == 4

\* cert.label || 'Certificate'
LabelOrDefault(label) ==
  IF Truthy(label) THEN label ELSE <<"C","e","r","t","i","f","i","c","a","t","e">>

\* certData.push({ label, bytes, pageCount: pdf.getPageCount() })
CertDatum(cert, bytes) ==
  [label |-> LabelOrDefault(cert.label), bytes |-> bytes, pageCount |-> Len(bytes.pages)]

\* const certStartPage = qirPageCount + 2
CertStartPage(qirPageCount) == qirPageCount + 2

\* { ...c, startPage: runningPage }
Entry(c, runningPage) ==
  [label |-> c.label, bytes |-> c.bytes, pageCount |-> c.pageCount,
   startPage |-> runningPage]

AdvanceByOne(runningPage, c) == runningPage + 1

\* runningPage += c.pageCount
Advance(runningPage, c) == runningPage + c.pageCount

\* certData.map(c => { entry at runningPage; runningPage += c.pageCount })
RECURSIVE MapEntries(_, _)
MapEntries(data, runningPage) ==
  IF data = <<>> THEN <<>>
  ELSE <<Entry(Head(data), runningPage)>>
       \o MapEntries(Tail(data), Advance(runningPage, Head(data)))

PlanEntries(data, qirPageCount) == MapEntries(data, CertStartPage(qirPageCount))

\* ---------------------------------------------------------------- index page
Placeholder == "U+2014"

\* drawRow(label, pageNum, isSub, isHeader): the row as drawn, pgStr = String(pageNum).
Row(label, pgStr, isSub, isHeader) ==
  [label |-> label, pgStr |-> pgStr, isSub |-> isSub, isHeader |-> isHeader]

\* certEntries[0]?.startPage || '—'
FirstStartOrPlaceholder(entries) ==
  IF Len(entries) > 0 /\ entries[1].startPage # 0
  THEN ToString(entries[1].startPage) ELSE Placeholder

CertRowsShowingCount(entries) ==
  [i \in 1..Len(entries) |-> Row(entries[i].label, ToString(entries[i].pageCount), TRUE, FALSE)]

CertRows(entries) ==
  [i \in 1..Len(entries) |-> Row(entries[i].label, ToString(entries[i].startPage), TRUE, FALSE)]

\* The drawRow calls of buildIndexPage, in order (src/server.js).
IndexRows(inspectionPage, entries) ==
  << Row(<<"Section">>, "Page", FALSE, TRUE),
     Row(<<"Report Header & Part Information">>, "1", FALSE, FALSE),
     Row(<<"Index">>, "2", FALSE, FALSE),
     Row(<<"Part Drawing">>, "3", FALSE, FALSE),
     Row(<<"Inspection">>, ToString(inspectionPage), FALSE, FALSE),
     Row(<<"Dimensional Inspection">>, ToString(inspectionPage), TRUE, FALSE),
     Row(<<"Visual Inspection">>, Placeholder, TRUE, FALSE),
     Row(<<"Tests & Certificates">>, FirstStartOrPlaceholder(entries), FALSE, FALSE) >>
  \o CertRows(entries)

\* The drawRow calls of the legacy buildIndexPage.
LegacyIndexRows(inspectionPage, entries) ==
  << Row(<<"Report Header & Part Information">>, "1", FALSE, TRUE),
     Row(<<"Index">>, "2", FALSE, TRUE),
     Row(<<"Part Drawing">>, "3", FALSE, TRUE),
     Row(<<"Inspection">>, ToString(inspectionPage), FALSE, TRUE),
     Row(<<"Dimensional Inspection">>, ToString(inspectionPage), TRUE, FALSE),
     Row(<<"Visual Inspection">>, Placeholder, TRUE, FALSE),
     Row(<<"Tests & Certificates">>, FirstStartOrPlaceholder(entries), FALSE, TRUE) >>
  \o CertRows(entries)

\* The footer '2' buildIndexPage draws on its page.
IndexFooter == 2

IndexPage(rows) == [Page("index", 0, 1) EXCEPT !.footer = IndexFooter, !.rows = rows]

\* buildIndexPage({ reportNo, partName, date, inspectionPage, certEntries }):
\* drawText throws on text Helvetica cannot encode (the title line, a label).
BuildIndexPage(legacy, reportNo, partName, date, inspectionPage, entries) ==
  IF ~(Encodable(reportNo) /\ Encodable(partName) /\ Encodable(date))
     \/ \E i \in 1..Len(entries) : ~Encodable(entries[i].label)
  THEN Throw("WinAnsi cannot encode")
  ELSE Ok([id |-> 0, parsable |-> TRUE, drawable |-> TRUE,
           pages |-> << IndexPage(IF legacy THEN LegacyIndexRows(inspectionPage, entries)
                                  ELSE IndexRows(inspectionPage, entries)) >>])

\* ---------------------------------------------------------------- stamping
\* stampHeading(pdfBytes, label) / stampHeadingOnPdf: every failure inside is
\* caught and gives the bytes back as they came.
StampHeading(pdfBytes, label) ==
  IF ~Truthy(Trim(label)) THEN pdfBytes
  ELSE IF CanLoad(pdfBytes) /\ Len(pdfBytes.pages) > 0 /\ CanDraw(pdfBytes)
          /\ Encodable(label)
       THEN PdfSave([pdfBytes EXCEPT !.pages[1].heading = label])
       ELSE pdfBytes

\* String(startPageNum + i) drawn on the page at 0-based index i.
FooterNumber(startPageNum, i) == startPageNum + i

\* stampPageNumbers(pdfBytes, startPageNum): nothing is caught.
StampPageNumbers(pdfBytes, startPageNum) ==
  IF ~CanLoad(pdfBytes) THEN Throw("Failed to parse PDF document")
  ELSE IF Len(pdfBytes.pages) > 0 /\ ~CanDraw(pdfBytes)
       THEN Throw("Cannot draw on page")
       ELSE Ok(PdfSave([pdfBytes EXCEPT !.pages =
              [k \in 1..Len(pdfBytes.pages) |->
                 [pdfBytes.pages[k] EXCEPT !.footer = FooterNumber(startPageNum, k - 1)]]]))

\* Legacy stampPageNumbers(pdfBytes, startPageNum, label): the label is drawn
\* in the footer of the first page as well.
LegacyStampPageNumbers(pdfBytes, startPageNum, label) ==
  IF ~CanLoad(pdfBytes) THEN Throw("Failed to parse PDF document")
  ELSE IF Len(pdfBytes.pages) > 0 /\ ~CanDraw(pdfBytes)
       THEN Throw("Cannot draw on page")
       ELSE IF Len(pdfBytes.pages) > 0 /\ Truthy(label) /\ ~Encodable(label)
       THEN Throw("WinAnsi cannot encode")
       ELSE Ok(PdfSave([pdfBytes EXCEPT !.pages =
              [k \in 1..Len(pdfBytes.pages) |->
                 [pdfBytes.pages[k] EXCEPT
                    !.footer = FooterNumber(startPageNum, k - 1),
                    !.mark   = IF k = 1 /\ Truthy(label) THEN label ELSE @]]]))

\* const finalNum = i === 0 ? 1 : i + 2   (i the 0-based index of a QIR page)
QirFinalNum(i) == IF i = 0 THEN 1 ELSE i + 2

\* Step 5 of src/server.js: number the QIR pages and save.
NumberQir(qirBytes) ==
  IF ~CanLoad(qirBytes) THEN Throw("Failed to parse PDF document")
  ELSE IF Len(qirBytes.pages) > 0 /\ ~CanDraw(qirBytes)
       THEN Throw("Cannot draw on page")
       ELSE Ok(PdfSave([qirBytes EXCEPT !.pages =
              [k \in 1..Len(qirBytes.pages) |->
                 [qirBytes.pages[k] EXCEPT !.footer = QirFinalNum(k - 1)]]]))

\* ---------------------------------------------------------------- filename
\* The character class [a-zA-Z0-9\-_.] of the filename pattern.
Allowed(c) == c \in Lower \cup Upper \cup Digits \cup {"-", "_", "."}

\* `QIR-${reportNo}-${date}.pdf`
RawFilename(reportNo, date) ==
  <<"Q","I","R","-">> \o reportNo \o <<"-">> \o date \o <<".","p","d","f">>

SanitizeByStripping(s) == SelectSeq(s, Allowed)

\* .replace(/[^a-zA-Z0-9\-_.]/g, '_')
Sanitize(s) == [i \in 1..Len(s) |-> IF Allowed(s[i]) THEN s[i] ELSE "_"]

\* Defaults of the destructuring: reportNo='QIR', partName='', date=''
ReportNoOf(b) == IF b.reportNo = undefined THEN <<"Q","I","R">> ELSE b.reportNo
PartNameOf(b) == IF b.partName = undefined THEN <<>> ELSE b.partName
DateOf(b)     == IF b.date = undefined THEN <<>> ELSE b.date

MergeFilename(reportNo, date) == Sanitize(RawFilename(reportNo, date))

\* ---------------------------------------------------------------- responses
NoResponse == [status |-> 0, type |-> "", filename |-> <<>>, pages |-> <<>>, error |-> ""]

\* res.setHeader('Content-Type', 'application/pdf'); Content-Disposition;
\* res.send(Buffer.from(finalBytes))
PdfResponse(filename, finalBytes) ==
  [status |-> 200, type |-> "application/pdf", filename |-> filename,
   pages |-> finalBytes.pages, error |-> ""]

ErrorResponseWithoutStatus(msg) ==
  [status |-> 200, type |-> "application/json", filename |-> <<>>,
   pages |-> <<>>, error |-> msg]

\* res.status(500).json({ error: err.message })
ErrorResponse(msg) ==
  [status |-> 500, type |-> "application/json", filename |-> <<>>,
   pages |-> <<>>, error |-> msg]

\* ---------------------------------------------------------------- merge step
\* merged.addPage(qirPages[0]); merged.addPage(idxPg);
\* for (i = 1; i < qirPages.length; i++) merged.addPage(qirPages[i])
RECURSIVE AddPages(_, _)
AddPages(pages, more) ==
  IF more = <<>> THEN pages ELSE AddPages(AddPage(pages, Head(more)), Tail(more))

MergeBasePages(qirPages, idxPg) ==
  LET first == IF Len(qirPages) > 0 THEN qirPages[1] ELSE NoPage
      rest  == IF Len(qirPages) > 1 THEN SubSeq(qirPages, 2, Len(qirPages)) ELSE <<>>
  IN  AddPages(AddPage(AddPage(<<>>, first), idxPg), rest)

\* The body of the loop over certEntries: stamp, load, copy every page.
StampCert(legacy, cert) ==
  LET headed == StampHeading(cert.bytes, cert.label)
  IN  IF legacy THEN LegacyStampPageNumbers(headed, cert.startPage, cert.label)
      ELSE StampPageNumbers(headed, cert.startPage)

\* ---------------------------------------------------------------- state
VARIABLES
  variant,    \* which server file runs: "server" (src/server.js) or "legacy"
  pc,         \* pc[r]: where the handler of request r stands
  body,       \* body[r]: req.body, with what the world answers for its sources
  local,      \* local[r]: the handler's local constants and variables
  certData,   \* the certData array of each handler invocation
  res         \* res[r]: the response sent, NoResponse while none is

vars == <<variant, pc, body, local, certData, res>>

Requests == 1..NumReq
Variants == {"server", "legacy"}
Legacy   == variant = "legacy"

CertDataScopeModule(r) == NumReq

\* certData is declared inside the handler: one array per invocation.
CertDataScope(r) == r

\* certsNull: the body carries "certificates": null.  The default of the
\* destructuring applies to a missing property only, so the handler's
\* certificates is null then; the certificates field holds <<>> for it.
NoBody ==
  [reportNo |-> undefined, partName |-> undefined, date |-> undefined,
   qirSource |-> MissingSource, certificates |-> <<>>, certsNull |-> FALSE]

\* resolved / warned record the positions of the certificates for which
\* loadPDFFromSource was called and for which console.warn('Skipped') ran.
NoLocal ==
  [qirBytes |-> Garbage, qirPageCount |-> 0, ci |-> 0, certEntries |-> <<>>,
   indexBytes |-> Garbage, qirNumbered |-> Garbage, merged |-> <<>>,
   resolved |-> {}, warned |-> {}]

Init ==
  /\ variant \in Variants
  /\ pc = [r \in Requests |-> "idle"]
  /\ body = [r \in Requests |-> NoBody]
  /\ local = [r \in Requests |-> NoLocal]
  /\ certData = [r \in Requests |-> <<>>]
  /\ res = [r \in Requests |-> NoResponse]

\* What the client gets when the promise of the async handler rejects before
\* the handler has answered: nothing from an Express that ignores the promise
\* a handler returns, the framework's own 500 page from one that forwards the
\* rejection to its error handler.
FrameworkError ==
  [status |-> 500, type |-> "text/html", filename |-> <<>>, pages |-> <<>>, error |-> ""]

RejectionOutcomes == {NoResponse, FrameworkError}

\* } catch(err) { res.status(500).json({ error: err.message }) }
Catch(r, msg) ==
  /\ res' = [res EXCEPT ![r] = ErrorResponse(msg)]
  /\ pc' = [pc EXCEPT ![r] = "done"]

\* A POST /merge arrives with a body of B: the handler destructures req.body
\* and logs certificates.length, both before its try block.  On a null
\* certificates the log line throws a TypeError that no catch of the handler
\* sees: the handler is over without having answered.
Receive(r, B) ==
  /\ pc[r] = "idle"
  /\ \E b \in B :
       /\ body' = [body EXCEPT ![r] = b]
       /\ IF b.certsNull
          THEN /\ pc' = [pc EXCEPT ![r] = "rejected"]
               /\ \E out \in RejectionOutcomes : res' = [res EXCEPT ![r] = out]
          ELSE /\ pc' = [pc EXCEPT ![r] = "loadQIR"]
               /\ UNCHANGED res
  /\ UNCHANGED <<variant, local, certData>>

\* 1. Load QIR; then const certData = [].
LoadQIR(r) ==
  /\ pc[r] = "loadQIR"
  /\ LET ld == LoadAndParse(body[r].qirSource, 0)
     IN  IF ld.ok
         THEN /\ local' = [local EXCEPT ![r].qirBytes = ld.bytes,
                                        ![r].qirPageCount = Len(ld.bytes.pages),
                                        ![r].ci = 1]
              /\ certData' = [certData EXCEPT ![CertDataScope(r)] = <<>>]
              /\ pc' = [pc EXCEPT ![r] = "loadCerts"]
              /\ UNCHANGED res
         ELSE /\ Catch(r, ld.error)
              /\ UNCHANGED <<local, certData>>
  /\ UNCHANGED <<variant, body>>

SkippedWithoutTrim(cert) == ~Truthy(cert.value)

\* if (!cert.value?.trim()) continue;
Skipped(cert) == ~Truthy(Trim(cert.value))

OnCertLoadErrorRethrow(r, i, msg) ==
  /\ local' = [local EXCEPT ![r].resolved = @ \cup {i}]
  /\ res' = [res EXCEPT ![r] = [status |-> 500, type |-> "application/json",
                                filename |-> <<>>, pages |-> <<>>, error |-> msg]]
  /\ pc' = [pc EXCEPT ![r] = "done"]
  /\ UNCHANGED certData

\* } catch(e) { console.warn(`Skipped "${cert.label}": ${e.message}`) }
OnCertLoadError(r, i, msg) ==
  /\ local' = [local EXCEPT ![r].ci = i + 1,
                            ![r].resolved = @ \cup {i},
                            ![r].warned = @ \cup {i}]
  /\ UNCHANGED <<certData, pc, res>>

\* 2. One iteration of for (const cert of certificates).
LoadCert(r) ==
  /\ pc[r] = "loadCerts"
  /\ local[r].ci <= Len(body[r].certificates)
  /\ LET i    == local[r].ci
         cert == body[r].certificates[i]
         ld   == LoadAndParse(cert, i)
     IN  IF Skipped(cert)
         THEN /\ local' = [local EXCEPT ![r].ci = i + 1]
              /\ UNCHANGED <<certData, pc, res>>
         ELSE IF ld.ok
         THEN /\ certData' = [certData EXCEPT ![CertDataScope(r)] =
                                 Append(@, CertDatum(cert, ld.bytes))]
              /\ local' = [local EXCEPT ![r].ci = i + 1,
                                        ![r].resolved = @ \cup {i}]
              /\ UNCHANGED <<pc, res>>
         ELSE OnCertLoadError(r, i, ld.error)
  /\ UNCHANGED <<variant, body>>

\* 3. Calculate page numbers, 4. build index.
PlanAndIndex(r) ==
  /\ pc[r] = "loadCerts"
  /\ local[r].ci > Len(body[r].certificates)
  /\ LET entries == PlanEntries(certData[CertDataScope(r)], local[r].qirPageCount)
         idx     == BuildIndexPage(Legacy, ReportNoOf(body[r]), PartNameOf(body[r]),
                                   DateOf(body[r]), INSPECTION_PAGE, entries)
     IN  IF idx.ok
         THEN /\ local' = [local EXCEPT ![r].certEntries = entries,
                                        ![r].indexBytes = idx.bytes]
              /\ pc' = [pc EXCEPT ![r] = IF Legacy THEN "merge" ELSE "numberQIR"]
              /\ UNCHANGED res
         ELSE /\ local' = [local EXCEPT ![r].certEntries = entries]
              /\ Catch(r, idx.error)
  /\ UNCHANGED <<variant, body, certData>>

\* 5. Stamp QIR page numbers (src/server.js only).
NumberQIR(r) ==
  /\ pc[r] = "numberQIR"
  /\ LET st == NumberQir(local[r].qirBytes)
     IN  IF st.ok
         THEN /\ local' = [local EXCEPT ![r].qirNumbered = st.bytes]
              /\ pc' = [pc EXCEPT ![r] = "merge"]
              /\ UNCHANGED res
         ELSE /\ Catch(r, st.error)
              /\ UNCHANGED local
  /\ UNCHANGED <<variant, body, certData>>

\* 6. Merge: the QIR pages and the index page.
MergeBase(r) ==
  /\ pc[r] = "merge"
  /\ LET qirFinal == IF Legacy THEN local[r].qirBytes ELSE local[r].qirNumbered
     IN  local' = [local EXCEPT
                     ![r].merged = MergeBasePages(qirFinal.pages, local[r].indexBytes.pages[1]),
                     ![r].ci = 1]
  /\ pc' = [pc EXCEPT ![r] = "mergeCerts"]
  /\ UNCHANGED <<variant, body, certData, res>>

\* 6. Merge: one iteration of for (const cert of certEntries).
MergeCert(r) ==
  /\ pc[r] = "mergeCerts"
  /\ local[r].ci <= Len(local[r].certEntries)
  /\ LET cert == local[r].certEntries[local[r].ci]
         st   == StampCert(Legacy, cert)
     IN  IF st.ok
         THEN /\ local' = [local EXCEPT ![r].merged = AddPages(@, st.bytes.pages),
                                        ![r].ci = @ + 1]
              /\ UNCHANGED <<pc, res>>
         ELSE /\ Catch(r, st.error)
              /\ UNCHANGED local
  /\ UNCHANGED <<variant, body, certData>>

\* merged.save(), the filename and res.send.
Respond(r) ==
  /\ pc[r] = "mergeCerts"
  /\ local[r].ci > Len(local[r].certEntries)
  /\ res' = [res EXCEPT ![r] =
               PdfResponse(MergeFilename(ReportNoOf(body[r]), DateOf(body[r])),
                           PdfSave([id |-> 0, parsable |-> TRUE, drawable |-> TRUE,
                                    pages |-> local[r].merged]))]
  /\ pc' = [pc EXCEPT ![r] = "done"]
  /\ UNCHANGED <<variant, body, local, certData>>

Handler(r) ==
  \/ LoadQIR(r)
  \/ LoadCert(r)
  \/ PlanAndIndex(r)
  \/ NumberQIR(r)
  \/ MergeBase(r)
  \/ MergeCert(r)
  \/ Respond(r)

\* ---------------------------------------------------------------- inputs
LabelM   == <<"M">>
LabelWs  == <<" ">>
LabelCyr == <<"U+0416">>
ValueX   == <<"x">>

\* Certificates whose value is missing, empty or white space.
BlankCerts ==
  { Source(LabelM, "url", v, "ok", TRUE, FALSE, 0, FALSE) : v \in {undefined, <<>>, <<" ">>} }

\* Certificates whose load fails: HTTP error, timeout, text that is not
\* base64, bytes that are no document.
FailingCerts ==
  { Source(LabelM, "url", ValueX, "http", TRUE, FALSE, 0, FALSE),
    Source(LabelM, "url", ValueX, "timeout", TRUE, FALSE, 0, FALSE),
    Source(LabelM, "base64", ValueX, "ok", FALSE, FALSE, 0, FALSE),
    Source(LabelM, "url", ValueX, "ok", TRUE, FALSE, 0, FALSE) }

\* Certificates that load: documents of 0..MaxCertPages pages, the labels a
\* body may carry, and documents whose pages cannot be drawn on.
LoadingCerts ==
  { Source(LabelM, "url", ValueX, "ok", TRUE, TRUE, n, TRUE) : n \in 0..MaxCertPages }
  \cup { Source(l, "base64", ValueX, "ok", TRUE, TRUE, 1, TRUE) : l \in {undefined, LabelWs, LabelCyr} }
  \cup { Source(l, "base64", ValueX, "ok", TRUE, TRUE, 1, FALSE) : l \in {LabelM, LabelWs} }

CertSources == BlankCerts \cup FailingCerts \cup LoadingCerts

QirSources ==
  { MissingSource,
    Source(undefined, "url", ValueX, "http", TRUE, FALSE, 0, FALSE),
    Source(undefined, "base64", ValueX, "ok", FALSE, FALSE, 0, FALSE),
    Source(undefined, "base64", ValueX, "ok", TRUE, TRUE, 1, FALSE) }
  \cup { Source(undefined, "url", ValueX, "ok", TRUE, TRUE, n, TRUE) : n \in 0..MaxBasePages }

\* The defaults of the destructuring, and a title line Helvetica cannot encode.
Headers ==
  { [reportNo |-> undefined, partName |-> undefined, date |-> undefined],
    [reportNo |-> <<"R", "/", "7">>, partName |-> LabelCyr, date |-> <<"1", ".", "2">>] }

SeqsUpTo(S, n) == UNION { [1..k -> S] : k \in 0..n }

Body(h, q, cs) ==
  [reportNo |-> h.reportNo, partName |-> h.partName, date |-> h.date,
   qirSource |-> q, certificates |-> cs, certsNull |-> FALSE]

\* { ..., "certificates": null }
NullCertsBody(h, q) == [Body(h, q, <<>>) EXCEPT !.certsNull = TRUE]

Bodies ==
  { Body(h, q, cs) : h \in Headers, q \in QirSources, cs \in SeqsUpTo(CertSources, MaxCerts) }
  \cup { NullCertsBody(h, q) : h \in Headers, q \in QirSources }

\* ---------------------------------------------------------------- one request
Next ==
  \/ Receive(1, Bodies)
  \/ Handler(1)

Spec == Init /\ [][Next]_vars

\* ---------------------------------------------------------------- filenames
\* Requests that differ in reportNo and date only: every string of at most
\* MaxStrLen characters, or no property at all.
FilenameChars == {"a", "7", "_", " ", "/"}

FilenameStrings == SeqsUpTo(FilenameChars, MaxStrLen) \cup {undefined}

FilenameBodies ==
  { [reportNo |-> rn, partName |-> <<"P">>, date |-> d,
     qirSource |-> Source(undefined, "base64", ValueX, "ok", TRUE, TRUE, 1, TRUE),
     certificates |-> << Source(LabelM, "url", ValueX, "ok", TRUE, TRUE, 1, TRUE) >>,
     certsNull |-> FALSE] : rn \in FilenameStrings, d \in FilenameStrings }

NextFilename ==
  \/ Receive(1, FilenameBodies)
  \/ Handler(1)

SpecFilename == Init /\ [][NextFilename]_vars

\* ---------------------------------------------------------------- concurrency
\* Requests in flight together: each runs from one await to the next, and any
\* other request may run in between.
GoodQir(n) == Source(undefined, "url", ValueX, "ok", TRUE, TRUE, n, TRUE)
GoodCert(l, n) == Source(l, "url", ValueX, "ok", TRUE, TRUE, n, TRUE)

ConcBodies ==
  { Body([reportNo |-> <<"A">>, partName |-> <<"P">>, date |-> <<"1">>], GoodQir(1),
         << GoodCert(LabelM, 1),
            Source(LabelM, "url", ValueX, "timeout", TRUE, FALSE, 0, FALSE),
            GoodCert(LabelWs, 2) >>),
    Body([reportNo |-> <<"B">>, partName |-> <<"P">>, date |-> <<"2">>], GoodQir(2),
         << Source(LabelM, "url", <<" ">>, "ok", TRUE, FALSE, 0, FALSE),
            GoodCert(undefined, 1) >>),
    Body([reportNo |-> <<"C">>, partName |-> <<"P">>, date |-> <<"3">>], GoodQir(1),
         << Source(LabelM, "base64", ValueX, "ok", TRUE, TRUE, 1, FALSE) >>),
    Body([reportNo |-> undefined, partName |-> undefined, date |-> undefined],
         Source(undefined, "url", ValueX, "http", TRUE, FALSE, 0, FALSE), <<>>) }

NextConc ==
  \E r \in Requests :
    \/ Receive(r, ConcBodies)
    \/ Handler(r)

SpecConc == Init /\ [][NextConc]_vars

\* The handler run from its first line to its response with no other request
\* in between: the certificate loop, the plan, the index, the merge.
RECURSIVE LoadAllFrom(_, _)
LoadAllFrom(certs, i) ==
  IF i > Len(certs) THEN <<>>
  ELSE LET ld == LoadAndParse(certs[i], i)
       IN  (IF ~Skipped(certs[i]) /\ ld.ok THEN <<CertDatum(certs[i], ld.bytes)>> ELSE <<>>)
           \o LoadAllFrom(certs, i + 1)

RECURSIVE MergeAllCerts(_, _, _)
MergeAllCerts(legacy, pages, entries) ==
  IF entries = <<>> THEN [ok |-> TRUE, pages |-> pages, error |-> ""]
  ELSE LET st == StampCert(legacy, Head(entries))
       IN  IF ~st.ok THEN [ok |-> FALSE, pages |-> <<>>, error |-> st.error]
           ELSE MergeAllCerts(legacy, AddPages(pages, st.bytes.pages), Tail(entries))

RunAlone(legacy, b) ==
  LET q == LoadAndParse(b.qirSource, 0)
  IN  IF ~q.ok THEN ErrorResponse(q.error)
      ELSE
      LET entries == PlanEntries(LoadAllFrom(b.certificates, 1), Len(q.bytes.pages))
          idx     == BuildIndexPage(legacy, ReportNoOf(b), PartNameOf(b), DateOf(b),
                                    INSPECTION_PAGE, entries)
          num     == IF legacy THEN Ok(q.bytes) ELSE NumberQir(q.bytes)
      IN  IF ~idx.ok THEN ErrorResponse(idx.error)
          ELSE IF ~num.ok THEN ErrorResponse(num.error)
          ELSE
          LET m == MergeAllCerts(legacy,
                                 MergeBasePages(num.bytes.pages, idx.bytes.pages[1]),
                                 entries)
          IN  IF ~m.ok THEN ErrorResponse(m.error)
              ELSE PdfResponse(MergeFilename(ReportNoOf(b), DateOf(b)),
                               PdfSave([id |-> 0, parsable |-> TRUE, drawable |-> TRUE,
                                        pages |-> m.pages]))

\* ---------------------------------------------------------------- claims
Sent200(r) == pc[r] = "done" /\ res[r].status = 200
Sent500(r) == pc[r] = "done" /\ res[r].status = 500

\* A value that is missing, empty or only white space.
BlankValue(cert) ==
  \/ cert.value = undefined
  \/ \A k \in 1..Len(cert.value) : cert.value[k] \in WhiteSpace

\* The certificates of a body that are neither blank nor fail to load, as
\* positions in request order.
Survives(cert, i) == ~BlankValue(cert) /\ LoadAndParse(cert, i).ok

RECURSIVE SurvivorsFrom(_, _)
SurvivorsFrom(certs, i) ==
  IF i > Len(certs) THEN <<>>
  ELSE (IF Survives(certs[i], i) THEN <<i>> ELSE <<>>) \o SurvivorsFrom(certs, i + 1)

Survivors(b) == SurvivorsFrom(b.certificates, 1)

RECURSIVE SumPageCounts(_)
SumPageCounts(entries) ==
  IF entries = <<>> THEN 0 ELSE Head(entries).pageCount + SumPageCounts(Tail(entries))

TheIndexPage(out) == out[CHOOSE i \in 1..Len(out) : out[i].src = "index"]

\* The row of the index table that belongs to the j-th certificate entry.
CertRowOf(out, entries, j) ==
  LET rows == TheIndexPage(out).rows IN rows[Len(rows) - Len(entries) + j]

\* C1: in every 200 response, the page number the index page shows for a
\* certificate (its startPage) is the 1-based position of that certificate's
\* first page in the merged output, whatever the page counts are.
C1_IndexShowsFinalPosition ==
  \A r \in Requests : (variant = "server" /\ Sent200(r)) =>
    LET out     == res[r].pages
        entries == local[r].certEntries
    IN  \A j \in 1..Len(entries) :
          entries[j].pageCount > 0 =>
            \E i \in 1..Len(out) :
              /\ out[i].src = "cert" /\ out[i].cert = entries[j].bytes.id /\ out[i].k = 1
              /\ entries[j].startPage = i
              /\ CertRowOf(out, entries, j).pgStr = ToString(i)

\* C2: in every 200 response the merged output has
\* basePageCount + 1 + (sum of the surviving certificates' pageCount) pages,
\* for every base page count >= 0.
C2_MergedPageCount ==
  \A r \in Requests : Sent200(r) =>
    Len(res[r].pages) = local[r].qirPageCount + 1 + SumPageCounts(local[r].certEntries)

Ident(p) == <<p.src, p.cert, p.k>>

RECURSIVE CertIdents(_, _)
CertIdents(b, surv) ==
  IF surv = <<>> THEN <<>>
  ELSE [k \in 1..b.certificates[Head(surv)].pageCount |-> <<"cert", Head(surv), k>>]
       \o CertIdents(b, Tail(surv))

\* base page 1, the index page, base pages 2..N, then the pages of every
\* surviving certificate in request order.
ClaimedSequence(b) ==
  LET n == b.qirSource.pageCount
  IN  (IF n >= 1 THEN << <<"qir", 0, 1>> >> ELSE <<>>)
      \o << <<"index", 0, 1>> >>
      \o [k \in 1..(IF n >= 1 THEN n - 1 ELSE 0) |-> <<"qir", 0, k + 1>>]
      \o CertIdents(b, Survivors(b))

\* C3: the merged output is always base page 1, the index page, base pages
\* 2..N in order, then each surviving certificate's pages, contiguous and in
\* order, the certificates in the order of the request.
C3_FixedPageOrder ==
  \A r \in Requests : (variant = "server" /\ Sent200(r)) =>
    [i \in 1..Len(res[r].pages) |-> Ident(res[r].pages[i])] = ClaimedSequence(body[r])

\* The page plan of request r has been computed.
Planned(r) ==
  \/ pc[r] \in {"numberQIR", "merge", "mergeCerts"}
  \/ pc[r] = "done" /\ LoadAndParse(body[r].qirSource, 0).ok

\* C4: in the page plan the first entry starts at basePageCount + 2, every
\* entry starts where the one before it ends, and the entries are the
\* surviving certificates of the request, in request order.
C4_PagePlanContiguous ==
  \A r \in Requests : Planned(r) =>
    LET e    == local[r].certEntries
        surv == Survivors(body[r])
    IN  /\ Len(e) = Len(surv)
        /\ \A j \in 1..Len(e) : e[j].bytes.id = surv[j]
        /\ Len(e) > 0 => e[1].startPage = local[r].qirPageCount + 2
        /\ \A j \in 1..(Len(e) - 1) : e[j].startPage + e[j].pageCount = e[j + 1].startPage

C4_Witness ==
  \E r \in Requests :
    /\ Planned(r)
    /\ Len(local[r].certEntries) >= 2
    /\ local[r].certEntries[1].pageCount >= 2
    /\ local[r].qirPageCount >= 2

\* The positions of the certificates of b whose load fails.
FailedLoads(b) ==
  { i \in 1..Len(b.certificates) :
      ~BlankValue(b.certificates[i]) /\ ~LoadAndParse(b.certificates[i], i).ok }

SurvivorSet(b) == { Survivors(b)[j] : j \in 1..Len(Survivors(b)) }

\* The three fatal failures: the base document does not load, the index page
\* cannot be rendered, a page cannot be stamped while assembling.
BaseLoadFails(b) == ~LoadAndParse(b.qirSource, 0).ok

IndexRenderFails(b) ==
  \/ ~(Encodable(ReportNoOf(b)) /\ Encodable(PartNameOf(b)) /\ Encodable(DateOf(b)))
  \/ \E i \in SurvivorSet(b) : ~Encodable(LabelOrDefault(b.certificates[i].label))

Undrawable(src) == src.pageCount > 0 /\ ~src.drawable

AssemblyFails(b) ==
  \/ variant = "server" /\ Undrawable(b.qirSource)
  \/ \E i \in SurvivorSet(b) : Undrawable(b.certificates[i])

Healthy(b) == ~BaseLoadFails(b) /\ ~IndexRenderFails(b) /\ ~AssemblyFails(b)

HasPage(out, src, c, k) ==
  \E i \in 1..Len(out) : out[i].src = src /\ out[i].cert = c /\ out[i].k = k

\* C5: a certificate whose load fails is dropped from the plan and from the
\* output and contributes no pages, and the request still answers 200 with
\* the base document, the index and all remaining certificates (unless the
\* request fails for a reason of its own: base, index or assembly).
C5_FailedCertDropped ==
  \A r \in Requests :
    LET b == body[r]
        e == local[r].certEntries
    IN  /\ \A j \in 1..Len(e) : e[j].bytes.id \notin FailedLoads(b)
        /\ \A i \in FailedLoads(b), k \in 1..(MaxCertPages + 1) :
             ~HasPage(local[r].merged, "cert", i, k) /\ ~HasPage(res[r].pages, "cert", i, k)
        /\ (pc[r] = "done" /\ Healthy(b)) =>
             /\ res[r].status = 200
             /\ HasPage(res[r].pages, "index", 0, 1)
             /\ \A k \in 1..b.qirSource.pageCount : HasPage(res[r].pages, "qir", 0, k)
             /\ \A i \in SurvivorSet(b) : \A k \in 1..b.certificates[i].pageCount :
                  HasPage(res[r].pages, "cert", i, k)

C5_Witness ==
  \E r \in Requests :
    /\ Sent200(r)
    /\ FailedLoads(body[r]) # {}
    /\ \E i \in SurvivorSet(body[r]) : HasPage(res[r].pages, "cert", i, 1)

\* C6: when loading the base document, rendering the index or assembling
\* fails, the request ends with status 500 and a JSON body {error: message},
\* and no bytes of a merged document are sent, complete or partial.
C6_FatalFailureIs500 ==
  \A r \in Requests :
    /\ pc[r] \notin {"done", "rejected"} => res[r] = NoResponse
    /\ (pc[r] = "done" /\ ~Healthy(body[r])) =>
         /\ res[r].status = 500
         /\ res[r].type = "application/json"
         /\ res[r].error # ""
         /\ res[r].pages = <<>>
    /\ (pc[r] = "done" /\ BaseLoadFails(body[r])) =>
         res[r].error = LoadAndParse(body[r].qirSource, 0).error

C6_Witness ==
  \E r \in Requests :
    /\ Sent500(r)
    /\ AssemblyFails(body[r])
    /\ local[r].merged # <<>>
    /\ res[r].pages = <<>>

\* C7: stamping never fails the request: when a certificate's pages cannot be
\* drawn on, the stamper gives back the unmodified bytes and the request goes
\* on (a request that reached the stamping of its certificates answers 200).
C7_StampingNeverFails ==
  \A r \in Requests :
    (variant = "server" /\ pc[r] = "done" /\ local[r].merged # <<>>) => res[r].status = 200

\* The positions of the certificates of b whose value is blank.
BlankPositions(b) == { i \in 1..Len(b.certificates) : BlankValue(b.certificates[i]) }

NotBlank(cert) == ~BlankValue(cert)

\* What the index shows of a plan: label, start page and page count.
Shown(entries) ==
  [j \in 1..Len(entries) |->
     <<entries[j].label, entries[j].startPage, entries[j].pageCount>>]

\* C8: a certificate whose value is missing, empty or white space is skipped
\* before resolution: it is never fetched or decoded, never logged as a
\* failure, never among the entries, and the plan is the plan of the request
\* without it.
C8_BlankCertSkipped ==
  \A r \in Requests :
    LET b == body[r]
        e == local[r].certEntries
    IN  /\ \A i \in BlankPositions(b) :
             /\ i \notin local[r].resolved
             /\ i \notin local[r].warned
             /\ \A j \in 1..Len(e) : e[j].bytes.id # i
        /\ Planned(r) =>
             Shown(e) = Shown(PlanEntries(LoadAllFrom(SelectSeq(b.certificates, NotBlank), 1),
                                          local[r].qirPageCount))

C8_Witness ==
  \E r \in Requests :
    /\ Sent200(r)
    /\ 1 \in BlankPositions(body[r])
    /\ body[r].certificates[1].value = <<" ">>
    /\ Len(local[r].certEntries) >= 1

\* The filename with every character outside [a-zA-Z0-9-_.] removed.
Stripped(s) == SelectSeq(s, Allowed)

\* C9 as stated: the filename of a 200 response is QIR-<reportNo>-<date>.pdf
\* with every character that is not alphanumeric, '-', '_' or '.' removed.
C9_FilenameStripped ==
  \A r \in Requests : Sent200(r) =>
    res[r].filename = Stripped(RawFilename(ReportNoOf(body[r]), DateOf(body[r])))

\* C9 as amended: every such character is replaced by '_', so the filename
\* keeps the length of QIR-<reportNo>-<date>.pdf and every other character.
C9_FilenameUnderscored ==
  \A r \in Requests : Sent200(r) =>
    LET raw == RawFilename(ReportNoOf(body[r]), DateOf(body[r]))
        fn  == res[r].filename
    IN  /\ Len(fn) = Len(raw)
        /\ \A i \in 1..Len(raw) :
             fn[i] = IF raw[i] \in Lower \cup Upper \cup Digits \cup {"-", "_", "."}
                     THEN raw[i] ELSE "_"

C9_Witness ==
  \E r \in Requests :
    /\ Sent200(r)
    /\ body[r].reportNo = <<"a", "/">>
    /\ body[r].date = <<" ", "7">>
    /\ res[r].filename = <<"Q","I","R","-","a","_","-","_","7",".","p","d","f">>

\* C10: requests that interleave at their awaits do not touch each other's
\* state: each ends with the response it would have had if it had run alone.
C10_RequestsIsolated ==
  \A r \in Requests : pc[r] = "done" => res[r] = RunAlone(Legacy, body[r])

C10_Witness ==
  \E r1, r2 \in Requests :
    /\ r1 # r2
    /\ Sent200(r1) /\ Sent200(r2)
    /\ body[r1] # body[r2]
    /\ Len(local[r1].certEntries) >= 2
    /\ Len(local[r2].certEntries) >= 1
    /\ Len(res[r1].pages) # Len(res[r2].pages)

\* The index page of request r has been rendered.
IndexBuilt(r) == local[r].indexBytes # Garbage

RowsOfIndex(r) == local[r].indexBytes.pages[1].rows

\* rows are the rows the claim lists, for the plan `entries`: labels and page
\* numbers in order, the sub-rows drawn as sub-rows, and the Inspection and
\* Tests & Certificates rows drawn as header rows exactly if sectionIsHeader.
RowsListed(rows, entries, sectionIsHeader) ==
  /\ Len(rows) = 7 + Len(entries)
  /\ rows[1].label = <<"Report Header & Part Information">> /\ rows[1].pgStr = "1"
  /\ rows[2].label = <<"Index">> /\ rows[2].pgStr = "2"
  /\ rows[3].label = <<"Part Drawing">> /\ rows[3].pgStr = "3"
  /\ rows[4].label = <<"Inspection">> /\ rows[4].pgStr = ToString(INSPECTION_PAGE)
  /\ rows[4].isHeader = sectionIsHeader /\ ~rows[4].isSub
  /\ rows[5].label = <<"Dimensional Inspection">> /\ rows[5].pgStr = rows[4].pgStr
  /\ rows[5].isSub
  /\ rows[6].label = <<"Visual Inspection">> /\ rows[6].pgStr = Placeholder
  /\ rows[6].isSub
  /\ rows[7].label = <<"Tests & Certificates">>
  /\ rows[7].isHeader = sectionIsHeader /\ ~rows[7].isSub
  /\ (rows[7].pgStr = Placeholder) <=> (entries = <<>>)
  /\ entries # <<>> => rows[7].pgStr = ToString(entries[1].startPage)
  /\ \A j \in 1..Len(entries) :
       /\ rows[7 + j].label = entries[j].label
       /\ rows[7 + j].pgStr = ToString(entries[j].startPage)
       /\ rows[7 + j].isSub /\ ~rows[7 + j].isHeader

\* C11 as stated: the rows of the index table are Report Header & Part Info
\* -> 1, Index -> 2, Part Drawing -> 3, Inspection (header row), Dimensional
\* Inspection (sub-row, same number), Visual Inspection (sub-row,
\* placeholder), the Tests & Certificates header row with the first start page
\* (placeholder exactly without entries), then one sub-row per entry.
C11_IndexRowsAsStated ==
  \A r \in Requests : IndexBuilt(r) =>
    RowsListed(RowsOfIndex(r), local[r].certEntries, TRUE)

\* C11 as amended: src/server.js draws a 'Section' / 'Page' header row first
\* and draws Inspection and Tests & Certificates as plain top-level rows; only
\* the legacy file draws those two as header rows and has no title row.  The
\* labels, their order and every page number are as stated.
C11_IndexRowsAsDrawn ==
  \A r \in Requests : IndexBuilt(r) =>
    LET rows == RowsOfIndex(r)
    IN  IF variant = "server"
        THEN /\ Len(rows) >= 1
             /\ rows[1] = Row(<<"Section">>, "Page", FALSE, TRUE)
             /\ RowsListed(Tail(rows), local[r].certEntries, FALSE)
        ELSE RowsListed(rows, local[r].certEntries, TRUE)

C11_Witness ==
  \E r \in Requests :
    /\ variant = "server"
    /\ Sent200(r)
    /\ Len(local[r].certEntries) = 2
    /\ local[r].certEntries[1].pageCount = 2
    /\ TheIndexPage(res[r].pages).rows = RowsOfIndex(r)


\* stampPageNumbers as the handler of the running variant calls it on the
\* document of a plan entry.
StampedWith(entry, startPageNum) ==
  IF Legacy THEN LegacyStampPageNumbers(entry.bytes, startPageNum, entry.label)
  ELSE StampPageNumbers(entry.bytes, startPageNum)

\* out holds the pages of doc, one for one and in order, and the page at
\* 0-based index i carries the footer number startPageNum + i.
SamePagesNumbered(out, doc, startPageNum) ==
  /\ Len(out.pages) = Len(doc.pages)
  /\ \A k \in 1..Len(out.pages) :
       /\ out.pages[k].src = doc.pages[k].src
       /\ out.pages[k].cert = doc.pages[k].cert
       /\ out.pages[k].k = doc.pages[k].k
       /\ out.pages[k].footer = startPageNum + (k - 1)

\* C12: stampPageNumbers on a document of n pages returns the same n pages in
\* the same order, the page at 0-based index i carrying startPageNum + i; two
\* different start numbers give different footer numbers and the same page
\* count.  Stated of every document the handler hands to stampPageNumbers
\* and of every stamp that returns.
C12_StampKeepsPagesAndNumbers ==
  \A r \in Requests : \A j \in 1..Len(local[r].certEntries) :
    LET entry == local[r].certEntries[j]
        a     == StampedWith(entry, entry.startPage)
        b     == StampedWith(entry, entry.startPage + 1)
    IN  (a.ok /\ b.ok) =>
          /\ SamePagesNumbered(a.bytes, entry.bytes, entry.startPage)
          /\ SamePagesNumbered(b.bytes, entry.bytes, entry.startPage + 1)
          /\ Len(a.bytes.pages) = Len(b.bytes.pages)
          /\ \A k \in 1..Len(a.bytes.pages) :
               a.bytes.pages[k].footer # b.bytes.pages[k].footer


\* C13: in every merged document of a 200 response of src/server.js the page
\* at final 1-based position p carries the footer number p: base page 1
\* carries 1, the index page 2, base page k >= 2 carries k + 1, and page j
\* (0-based) of a certificate carries that certificate's startPage + j.
C13_FooterEqualsPosition ==
  \A r \in Requests : (variant = "server" /\ Sent200(r)) =>
    \A p \in 1..Len(res[r].pages) : res[r].pages[p].footer = p


\* The response of request r is one of the two the interface names: 200 with
\* the merged document as application/pdf, or 500 with { error } as JSON.
CompleteDocument(r) ==
  /\ res[r].status = 200
  /\ res[r].type = "application/pdf"
  /\ res[r].pages = local[r].merged
  /\ Len(res[r].pages) >= 2
  /\ res[r].error = ""

ErrorAnswer(r) ==
  /\ res[r].status = 500
  /\ res[r].type = "application/json"
  /\ res[r].error # ""
  /\ res[r].pages = <<>>

\* C14: every /merge request ends with exactly one response, 200 with the
\* complete merged document or 500 with { error }: while it has not answered
\* its handler still has a step to take (never neither), its answer is one of
\* the two (never both), and after the answer the handler takes no further
\* step (never a second response).
C14_ExactlyOneResponse ==
  \A r \in Requests : pc[r] # "idle" =>
    \/ res[r] = NoResponse /\ ENABLED Handler(r)
    \/ /\ res[r] # NoResponse
       /\ ~ENABLED Handler(r)
       /\ CompleteDocument(r) \/ ErrorAnswer(r)

====
